---- MODULE Spec2Model ----
(***************************************************************************)
(* A model of pkg/estimator (estimator.go): the bounded per-group usage    *)
(* History (GroupHistory), and the Estimator registry that records usage,  *)
(* estimates resources, looks histories up and sweeps old ones, with the   *)
(* registry lock e.mu and every history's own lock gh.mu; and of the       *)
(* admission webhook (package webhook): validateJobGroup and               *)
(* mutateJobGroup on the JSON object sent for review.                      *)
(*                                                                         *)
(* Every method is a sequence of steps of the thread that calls it, one    *)
(* step per lock acquisition and one per critical section, so that the     *)
(* calls of several threads interleave as the locks allow.                 *)
(*                                                                         *)
(* float64 values are modelled as exact rationals: a sample's field is an  *)
(* integer, an average is a pair <<numerator, denominator>>, the weights   *)
(* 0.7 and 0.3 are 7/10 and 3/10. The conversion int64(x) is truncation    *)
(* toward zero, as in Go; the values stay far from the int64 range.        *)
(* sync.RWMutex is modelled by who holds it and which writer waits for its  *)
(* readers; a goroutine that cannot take a lock does not step.             *)
(***************************************************************************)
EXTENDS Integers, Sequences, FiniteSets, TLC

VARIABLES
    histories,  \* e.histories: composite key -> reference to a GroupHistory
    objs,       \* the GroupHistory objects ever allocated; a reference is an index
    hmu,        \* hmu[i]: the RWMutex gh.mu of objs[i]
    mu,         \* e.mu, the registry RWMutex
    maxSize,    \* e.maxSize
    now,        \* the wall clock read by time.Now()
    th,         \* th[t]: the call thread t is running, its position and locals
    budget,     \* the callers' plan: how many calls they make, for which pairs, and which calls
                \* they make without counting them
    calls,      \* history: the number of counted calls started so far
    swept,      \* history: a CleanOldHistory call has started
    recorded,   \* history: recorded[key] is the number of RecordUsage calls started for key
    log,        \* history: log[i] is every sample ever appended to objs[i]
    admission   \* the admission webhook: the last review it handled, with its response

vars == <<histories, objs, hmu, mu, maxSize, now, th, budget, calls, swept, recorded, log, admission>>

----------------------------------------------------------------------------
(* Bounds of the model: the callers of Spec run concurrently; SpecSeq has one
   caller, which makes longer runs over larger histories affordable *)

NumThreads == 2
MaxCalls == 3
MaxSeqCalls == 3
MaxGroupCalls == 4
MaxTime == 2
MaxCap == 2
MaxSeqCap == 3
FairCap == 1
MaxMember == 3

Threads == 1..NumThreads

(* Inputs *)

\* (namespace, groupName) pairs callers use; the first two give the same
\* composite key "a/b/c"
Pairs == { <<"a/b", "c">>, <<"a", "b/c">>, <<"a", "c">> }

\* (cpu, memory, gpu) triples callers record
Usages == { [CPU |-> 1, Memory |-> -1, GPU |-> 0],
            [CPU |-> 0, Memory |-> 2, GPU |-> 1] }

\* maxAge arguments of CleanOldHistory
MaxAges == { -1, 0, 1 }

----------------------------------------------------------------------------
(* Values *)

\* time.Time{}: the zero time, before every instant the clock returns
ZeroTime == 0

\* ResourceUsage{} as GetAverage returns it: every field zero
ZeroAverage == [Timestamp |-> ZeroTime, CPU |-> <<0, 1>>, Memory |-> <<0, 1>>, GPU |-> <<0, 1>>]

\* ResourceUsage{} as GetPeak returns it
ZeroUsage == [Timestamp |-> ZeroTime, CPU |-> 0, Memory |-> 0, GPU |-> 0]

\* a nil corev1.ResourceList, and the empty map
Nil == [r \in {} |-> 0]

\* an unlocked sync.RWMutex: w the writer holding it (0: none), r the readers
\* holding it, p the writer that has called Lock and waits for the readers to
\* leave (0: none)
Unlocked == [w |-> 0, r |-> {}, p |-> 0]

\* fmt.Sprintf("%s/%s", namespace, groupName)
Key(namespace, groupName) == namespace \o "/" \o groupName

\* int64(n/d) for d > 0: truncation toward zero
Int64(n, d) == IF n >= 0 THEN n \div d ELSE -((-n) \div d)

RECURSIVE Sum(_, _)
\* the running total of `for _, usage := range gh.History { total += usage.f }`
Sum(h, f) == IF h = <<>> THEN 0 ELSE h[1][f] + Sum(Tail(h), f)

RECURSIVE PeakOver(_, _, _)
\* `for _, usage := range gh.History { if usage.f > peak.f { peak.f = usage.f } }`
PeakOver(h, f, peak) ==
    IF h = <<>> THEN peak
    ELSE PeakOver(Tail(h), f, IF h[1][f] > peak THEN h[1][f] ELSE peak)

----------------------------------------------------------------------------
(* GroupHistory *)

NewGroupHistory(groupName, namespace, size) ==
    [GroupName |-> groupName, Namespace |-> namespace, History |-> <<>>, maxSize |-> size]

\* AddUsage dropping the newest sample when full
AddUsage_DropsNewest(h, size, usage) ==
    LET appended == Append(h, usage)
    IN  IF Len(appended) > size THEN SubSeq(appended, 1, Len(appended) - 1) ELSE appended

\* the body of AddUsage on the slice h with bound size
AddUsage(h, size, usage) ==
    LET appended == Append(h, usage)
    IN  IF Len(appended) > size THEN Tail(appended) ELSE appended

\* GetAverage dividing in integers
GetAverage_IntegerDivision(h) ==
    IF Len(h) = 0 THEN ZeroAverage
    ELSE [Timestamp |-> ZeroTime,
          CPU |-> <<Sum(h, "CPU") \div Len(h), 1>>,
          Memory |-> <<Sum(h, "Memory") \div Len(h), 1>>,
          GPU |-> <<Sum(h, "GPU") \div Len(h), 1>>]

\* the body of GetAverage
GetAverage(h) ==
    IF Len(h) = 0 THEN ZeroAverage
    ELSE [Timestamp |-> ZeroTime,
          CPU |-> <<Sum(h, "CPU"), Len(h)>>,
          Memory |-> <<Sum(h, "Memory"), Len(h)>>,
          GPU |-> <<Sum(h, "GPU"), Len(h)>>]

\* GetPeak returning the first sample, the loop over the others forgotten
GetPeak_FirstSample(h) ==
    IF Len(h) = 0 THEN ZeroUsage
    ELSE [Timestamp |-> h[1].Timestamp, CPU |-> h[1].CPU,
          Memory |-> h[1].Memory, GPU |-> h[1].GPU]

\* GetPeak starting from the zero value instead of the first sample
GetPeak_FromZero(h) ==
    IF Len(h) = 0 THEN ZeroUsage
    ELSE [Timestamp |-> h[1].Timestamp,
          CPU |-> PeakOver(h, "CPU", 0),
          Memory |-> PeakOver(h, "Memory", 0),
          GPU |-> PeakOver(h, "GPU", 0)]

\* the body of GetPeak
GetPeak(h) ==
    IF Len(h) = 0 THEN ZeroUsage
    ELSE [Timestamp |-> h[1].Timestamp,
          CPU |-> PeakOver(h, "CPU", h[1].CPU),
          Memory |-> PeakOver(h, "Memory", h[1].Memory),
          GPU |-> PeakOver(h, "GPU", h[1].GPU)]

----------------------------------------------------------------------------
(* Estimator: the pure part of EstimateResources *)

\* avg.f*0.7 + peak.f*0.3 as the fraction <<numerator, denominator>>
Estimated(avg, peak, f) == <<7 * avg[f][1] + 3 * peak[f] * avg[f][2], 10 * avg[f][2]>>

\* the ResourceList with the accelerator entry whenever the estimate is >= 0
ResourceList_ZeroGPU(avg, peak) ==
    LET estimatedCPU == Estimated(avg, peak, "CPU")
        estimatedMem == Estimated(avg, peak, "Memory")
        estimatedGPU == Estimated(avg, peak, "GPU")
        resources == ("cpu" :> Int64(estimatedCPU[1] * 1000, estimatedCPU[2]))
                     @@ ("memory" :> Int64(estimatedMem[1], estimatedMem[2]))
    IN  IF estimatedGPU[1] >= 0
        THEN resources @@ ("nvidia.com/gpu" :> Int64(estimatedGPU[1], estimatedGPU[2]))
        ELSE resources

\* the ResourceList built from avg and peak; the cpu entry is in milli-cores
ResourceList(avg, peak) ==
    LET estimatedCPU == Estimated(avg, peak, "CPU")
        estimatedMem == Estimated(avg, peak, "Memory")
        estimatedGPU == Estimated(avg, peak, "GPU")
        resources == ("cpu" :> Int64(estimatedCPU[1] * 1000, estimatedCPU[2]))
                     @@ ("memory" :> Int64(estimatedMem[1], estimatedMem[2]))
    IN  IF estimatedGPU[1] > 0
        THEN resources @@ ("nvidia.com/gpu" :> Int64(estimatedGPU[1], estimatedGPU[2]))
        ELSE resources

----------------------------------------------------------------------------
(* sync.RWMutex: Lock waits for the writer and the readers holding the
   mutex; from the moment a Lock call waits for readers, RLock calls wait
   behind it, and other Lock calls too *)

\* Lock by t returns: nobody holds the mutex and no other writer is ahead
CanLock(m, t) == m.w = 0 /\ m.r = {} /\ m.p \in {0, t}
\* Lock by t finds readers and starts waiting for them
CanWait(m, t) == m.w = 0 /\ m.r # {} /\ m.p = 0
Waiting(m, t) == [m EXCEPT !.p = t]
\* RLock returns: no writer holds the mutex or waits for it
CanRLock(m) == m.w = 0 /\ m.p = 0
Locked(t) == [w |-> t, r |-> {}, p |-> 0]
RLocked(m, t) == [m EXCEPT !.r = @ \cup {t}]
RUnlocked(m, t) == [m EXCEPT !.r = @ \ {t}]

----------------------------------------------------------------------------
(* The admission webhook (package webhook): validateJobGroup and
   mutateJobGroup on the object of an AdmissionRequest.

   A decoded JSON value is a record: t its kind, n its number when it is a
   number, o its members when it is an object. req.Object.Raw is such a
   value, or Malformed when the bytes are not JSON. Numbers are integers here;
   encoding/json decodes every number as float64. *)

Num(n) == [t |-> "number", n |-> n, o |-> Nil]
Text == [t |-> "string", n |-> 0, o |-> Nil]
Null == [t |-> "null", n |-> 0, o |-> Nil]
Obj(o) == [t |-> "object", n |-> 0, o |-> o]
Malformed == [t |-> "malformed", n |-> 0, o |-> Nil]

\* json.Unmarshal(raw, &spec) into a map[string]interface{} succeeds for an
\* object, and for null, which leaves the map nil
Unmarshals(raw) == raw.t \in {"object", "null"}

\* specData, ok := spec["spec"].(map[string]interface{})
HasSpecData(raw) == "spec" \in DOMAIN raw.o /\ raw.o["spec"].t = "object"
SpecData(raw) == raw.o["spec"].o

\* v, _ := specData[key].(float64): the number, or 0 when the key is absent
\* or its value is not a number
Float64(specData, key) ==
    IF key \in DOMAIN specData /\ specData[key].t = "number" THEN specData[key].n ELSE 0

\* an AdmissionResponse: Allowed, Result.Message ("" when Result is nil) and
\* the operations of Patch (none when Patch is nil)
Response(allowed, message, patch) == [Allowed |-> allowed, Message |-> message, Patch |-> patch]

validateJobGroup(raw) ==
    IF ~Unmarshals(raw) THEN Response(FALSE, "failed to unmarshal spec", <<>>)
    ELSE IF ~HasSpecData(raw) THEN Response(FALSE, "spec field is required", <<>>)
    ELSE LET specData == SpecData(raw)
             minMember == Float64(specData, "minMember")
             maxMember == Float64(specData, "maxMember")
             timeout == Float64(specData, "scheduleTimeoutSeconds")
         IN  IF minMember <= 0
             THEN Response(FALSE, "minMember must be positive", <<>>)
             ELSE IF maxMember > 0 /\ maxMember < minMember
             THEN Response(FALSE, "maxMember must be >= minMember", <<>>)
             ELSE IF timeout <= 0
             THEN Response(FALSE, "scheduleTimeoutSeconds must be positive", <<>>)
             ELSE Response(TRUE, "", <<>>)

\* specData[key] = value when key is not in specData
Default(specData, key, value) ==
    IF key \in DOMAIN specData THEN specData ELSE (key :> value) @@ specData

mutateJobGroup(raw) ==
    IF ~Unmarshals(raw) THEN Response(TRUE, "", <<>>)
    ELSE IF ~HasSpecData(raw) THEN Response(TRUE, "", <<>>)
    ELSE LET specData == SpecData(raw)
             withMax == Default(specData, "maxMember", Num(Float64(specData, "minMember") * 2))
             withPriority == Default(withMax, "priority", Num(50))
             withTimeout == Default(withPriority, "scheduleTimeoutSeconds", Num(600))
             modified == withTimeout # specData
             \* specData is the map inside spec: the defaults show in spec itself
             spec == Obj([raw.o EXCEPT !["spec"] = Obj(withTimeout)])
         IN  IF modified
             THEN Response(TRUE, "", <<[op |-> "replace", path |-> "/spec", value |-> spec]>>)
             ELSE Response(TRUE, "", <<>>)

\* the webhook has handled no review
NoReview == [handler |-> "none", Raw |-> Malformed, Response |-> Response(TRUE, "", <<>>)]

----------------------------------------------------------------------------
(* Threads *)

\* what CleanOldHistory found when it started (history, for the claims)
NoPre == [histories |-> Nil, objs |-> <<>>, now |-> ZeroTime]

Idle == [op |-> "none", pc |-> "idle", namespace |-> "", groupName |-> "",
         usage |-> ZeroUsage, maxAge |-> 0, key |-> "", history |-> 0,
         exists |-> FALSE, avg |-> ZeroAverage, peak |-> ZeroUsage,
         resources |-> Nil, err |-> FALSE, removed |-> 0, cutoff |-> ZeroTime,
         todo |-> {}, pre |-> NoPre]

\* the Estimator as constructed with one of the sizes, and callers with a plan
InitPlan(sizes, plan) ==
    /\ budget = plan
    /\ histories = Nil
    /\ objs = <<>>
    /\ hmu = <<>>
    /\ mu = Unlocked
    /\ maxSize \in sizes
    /\ now = 1
    /\ th = [t \in Threads |-> Idle]
    /\ calls = 0
    /\ swept = FALSE
    /\ recorded = Nil
    /\ log = <<>>
    /\ admission = NoReview

\* callers that make n counted calls, for any of the pairs
InitWith(sizes, n, free) == InitPlan(sizes, [calls |-> n, free |-> free, pairs |-> Pairs])

\* NewEstimator(maxHistorySize, logger)
Init == InitWith(0..MaxCap, MaxCalls, {})

\* a thread may start a call when it is running none; idle threads are
\* interchangeable, so a call goes to the first of them
CanCall(t) == /\ th[t].pc = "idle"
              /\ \A u \in Threads : u < t => th[u].pc # "idle"

\* the callers' plan has calls for the pair
Uses(namespace, groupName) == <<namespace, groupName>> \in budget.pairs

\* a call of op starts, within the plan
Called(op) == IF op \in budget.free
              THEN UNCHANGED calls
              ELSE calls < budget.calls /\ calls' = calls + 1

\* the clock advances
Tick ==
    /\ now < MaxTime
    /\ now' = now + 1
    /\ UNCHANGED <<histories, objs, hmu, mu, maxSize, th, budget, calls, swept, recorded, log, admission>>

\* the caller has its result; the thread is free for the next call
Return(t) ==
    /\ th[t].pc = "done"
    /\ th' = [th EXCEPT ![t] = Idle]
    /\ UNCHANGED <<histories, objs, hmu, mu, maxSize, now, budget, calls, swept, recorded, log, admission>>

----------------------------------------------------------------------------
(* RecordUsage *)

CallRecordUsage(t, namespace, groupName, usage) ==
    /\ CanCall(t)
    /\ th' = [th EXCEPT ![t] = [Idle EXCEPT !.op = "RecordUsage", !.pc = "ru_lock",
                                  !.namespace = namespace, !.groupName = groupName,
                                  !.usage = usage, !.key = Key(namespace, groupName)]]
    /\ Uses(namespace, groupName)
    /\ Called("RecordUsage")
    /\ LET key == Key(namespace, groupName)
       IN  recorded' = IF key \in DOMAIN recorded
                       THEN [recorded EXCEPT ![key] = @ + 1]
                       ELSE (key :> 1) @@ recorded
    /\ UNCHANGED <<histories, objs, hmu, mu, maxSize, now, budget, swept, log, admission>>

\* RecordUsage looking the key up without waiting for the registry lock
RU_Lock_NoExclusion(t) ==
    /\ th[t].pc = "ru_lock"
    /\ mu' = Locked(t)
    /\ th' = [th EXCEPT ![t].pc = "ru_getOrCreate",
                        ![t].exists = th[t].key \in DOMAIN histories,
                        ![t].history = IF th[t].key \in DOMAIN histories
                                       THEN histories[th[t].key] ELSE 0]
    /\ UNCHANGED <<histories, objs, hmu, maxSize, now, budget, calls, swept, recorded, log, admission>>

\* e.mu.Lock(); history, exists := e.histories[key]
RU_Lock(t) ==
    /\ th[t].pc = "ru_lock"
    /\ IF CanLock(mu, t)
       THEN /\ mu' = Locked(t)
            /\ th' = [th EXCEPT ![t].pc = "ru_getOrCreate",
                                ![t].exists = th[t].key \in DOMAIN histories,
                                ![t].history = IF th[t].key \in DOMAIN histories
                                               THEN histories[th[t].key] ELSE 0]
       ELSE /\ CanWait(mu, t)
            /\ mu' = Waiting(mu, t)
            /\ UNCHANGED th
    /\ UNCHANGED <<histories, objs, hmu, maxSize, now, budget, calls, swept, recorded, log, admission>>

\* RecordUsage going on to AddUsage with the registry lock still held
RU_GetOrCreate_DeferredUnlock(t) ==
    /\ th[t].pc = "ru_getOrCreate"
    /\ IF th[t].exists
       THEN /\ th' = [th EXCEPT ![t].pc = "au_lock"]
            /\ UNCHANGED <<histories, objs, hmu, log>>
       ELSE /\ objs' = Append(objs, NewGroupHistory(th[t].groupName, th[t].namespace, maxSize))
            /\ hmu' = Append(hmu, Unlocked)
            /\ log' = Append(log, <<>>)
            /\ histories' = [k \in DOMAIN histories \cup {th[t].key} |->
                                IF k = th[t].key THEN Len(objs) + 1 ELSE histories[k]]
            /\ th' = [th EXCEPT ![t].pc = "au_lock", ![t].history = Len(objs) + 1]
    /\ mu' = mu
    /\ UNCHANGED <<maxSize, now, budget, calls, swept, recorded, admission>>

\* if !exists, create the history and register it under key; e.mu.Unlock()
RU_GetOrCreate(t) ==
    /\ th[t].pc = "ru_getOrCreate"
    /\ IF th[t].exists
       THEN /\ th' = [th EXCEPT ![t].pc = "au_lock"]
            /\ UNCHANGED <<histories, objs, hmu, log>>
       ELSE /\ objs' = Append(objs, NewGroupHistory(th[t].groupName, th[t].namespace, maxSize))
            /\ hmu' = Append(hmu, Unlocked)
            /\ log' = Append(log, <<>>)
            /\ histories' = [k \in DOMAIN histories \cup {th[t].key} |->
                                IF k = th[t].key THEN Len(objs) + 1 ELSE histories[k]]
            /\ th' = [th EXCEPT ![t].pc = "au_lock", ![t].history = Len(objs) + 1]
    /\ mu' = Unlocked
    /\ UNCHANGED <<maxSize, now, budget, calls, swept, recorded, admission>>

\* history.AddUsage: gh.mu.Lock()
AU_Lock(t) ==
    /\ th[t].pc = "au_lock"
    /\ IF CanLock(hmu[th[t].history], t)
       THEN /\ hmu' = [hmu EXCEPT ![th[t].history] = Locked(t)]
            /\ th' = [th EXCEPT ![t].pc = "au_append"]
       ELSE /\ CanWait(hmu[th[t].history], t)
            /\ hmu' = [hmu EXCEPT ![th[t].history] = Waiting(@, t)]
            /\ UNCHANGED th
    /\ UNCHANGED <<histories, objs, mu, maxSize, now, budget, calls, swept, recorded, log, admission>>

\* AddUsage stamping the sample with a clock value read before it had the
\* History's lock
AU_Append_StaleClock(t) ==
    /\ th[t].pc = "au_append"
    /\ \E read \in 1..now :
        LET i == th[t].history
            usage == [Timestamp |-> read, CPU |-> th[t].usage.CPU,
                      Memory |-> th[t].usage.Memory, GPU |-> th[t].usage.GPU]
        IN  /\ objs' = [objs EXCEPT ![i].History = AddUsage(@, objs[i].maxSize, usage)]
            /\ log' = [log EXCEPT ![i] = Append(@, usage)]
            /\ hmu' = [hmu EXCEPT ![i] = Unlocked]
    /\ th' = [th EXCEPT ![t].pc = "done"]
    /\ UNCHANGED <<histories, mu, maxSize, now, budget, calls, swept, recorded, admission>>

\* RecordUsage putting its History back under the key after the append
AU_Append_ReRegisters(t) ==
    /\ th[t].pc = "au_append"
    /\ LET i == th[t].history
           usage == [Timestamp |-> now, CPU |-> th[t].usage.CPU,
                     Memory |-> th[t].usage.Memory, GPU |-> th[t].usage.GPU]
       IN  /\ objs' = [objs EXCEPT ![i].History = AddUsage(@, objs[i].maxSize, usage)]
           /\ log' = [log EXCEPT ![i] = Append(@, usage)]
           /\ hmu' = [hmu EXCEPT ![i] = Unlocked]
           /\ histories' = [k \in DOMAIN histories \cup {th[t].key} |->
                               IF k = th[t].key THEN i ELSE histories[k]]
    /\ th' = [th EXCEPT ![t].pc = "done"]
    /\ UNCHANGED <<mu, maxSize, now, budget, calls, swept, recorded, admission>>

\* stamp the sample, append, evict; deferred gh.mu.Unlock(); RecordUsage returns
AU_Append(t) ==
    /\ th[t].pc = "au_append"
    /\ LET i == th[t].history
           usage == [Timestamp |-> now, CPU |-> th[t].usage.CPU,
                     Memory |-> th[t].usage.Memory, GPU |-> th[t].usage.GPU]
       IN  /\ objs' = [objs EXCEPT ![i].History = AddUsage(@, objs[i].maxSize, usage)]
           /\ log' = [log EXCEPT ![i] = Append(@, usage)]
           /\ hmu' = [hmu EXCEPT ![i] = Unlocked]
    /\ th' = [th EXCEPT ![t].pc = "done"]
    /\ UNCHANGED <<histories, mu, maxSize, now, budget, calls, swept, recorded, admission>>

----------------------------------------------------------------------------
(* EstimateResources *)

CallEstimateResources(t, namespace, groupName) ==
    /\ CanCall(t)
    /\ th' = [th EXCEPT ![t] = [Idle EXCEPT !.op = "EstimateResources", !.pc = "er_rlock",
                                  !.namespace = namespace, !.groupName = groupName,
                                  !.key = Key(namespace, groupName)]]
    /\ Uses(namespace, groupName)
    /\ Called("EstimateResources")
    /\ UNCHANGED <<histories, objs, hmu, mu, maxSize, now, budget, swept, recorded, log, admission>>

\* e.mu.RLock()
ER_RLock(t) ==
    /\ th[t].pc = "er_rlock"
    /\ CanRLock(mu)
    /\ mu' = RLocked(mu, t)
    /\ th' = [th EXCEPT ![t].pc = "er_lookup"]
    /\ UNCHANGED <<histories, objs, hmu, maxSize, now, budget, calls, swept, recorded, log, admission>>

\* EstimateResources registering a History for a key it does not find
ER_Lookup_Registers(t) ==
    /\ th[t].pc = "er_lookup"
    /\ mu' = RUnlocked(mu, t)
    /\ IF th[t].key \in DOMAIN histories
       THEN /\ th' = [th EXCEPT ![t].pc = "avg_rlock", ![t].exists = TRUE,
                                ![t].history = histories[th[t].key]]
            /\ UNCHANGED <<histories, objs, hmu, log>>
       ELSE /\ objs' = Append(objs, NewGroupHistory(th[t].groupName, th[t].namespace, maxSize))
            /\ hmu' = Append(hmu, Unlocked)
            /\ log' = Append(log, <<>>)
            /\ histories' = [k \in DOMAIN histories \cup {th[t].key} |->
                                IF k = th[t].key THEN Len(objs) + 1 ELSE histories[k]]
            /\ th' = [th EXCEPT ![t].pc = "done", ![t].exists = FALSE,
                                ![t].resources = Nil, ![t].err = TRUE]
    /\ UNCHANGED <<maxSize, now, budget, calls, swept, recorded, admission>>

\* history, exists := e.histories[key]; e.mu.RUnlock(); the error return if absent
ER_Lookup(t) ==
    /\ th[t].pc = "er_lookup"
    /\ mu' = RUnlocked(mu, t)
    /\ IF th[t].key \in DOMAIN histories
       THEN th' = [th EXCEPT ![t].pc = "avg_rlock", ![t].exists = TRUE,
                             ![t].history = histories[th[t].key]]
       ELSE th' = [th EXCEPT ![t].pc = "done", ![t].exists = FALSE,
                             ![t].resources = Nil, ![t].err = TRUE]
    /\ UNCHANGED <<histories, objs, hmu, maxSize, now, budget, calls, swept, recorded, log, admission>>

\* GetAverage entering its reading section without waiting for the writer
Avg_RLock_NoWait(t) ==
    /\ th[t].pc = "avg_rlock"
    /\ hmu' = [hmu EXCEPT ![th[t].history] = RLocked(@, t)]
    /\ th' = [th EXCEPT ![t].pc = "avg_compute"]
    /\ UNCHANGED <<histories, objs, mu, maxSize, now, budget, calls, swept, recorded, log, admission>>

\* history.GetAverage: gh.mu.RLock()
Avg_RLock(t) ==
    /\ th[t].pc = "avg_rlock"
    /\ CanRLock(hmu[th[t].history])
    /\ hmu' = [hmu EXCEPT ![th[t].history] = RLocked(@, t)]
    /\ th' = [th EXCEPT ![t].pc = "avg_compute"]
    /\ UNCHANGED <<histories, objs, mu, maxSize, now, budget, calls, swept, recorded, log, admission>>

\* the average over gh.History; deferred gh.mu.RUnlock()
Avg_Compute(t) ==
    /\ th[t].pc = "avg_compute"
    /\ hmu' = [hmu EXCEPT ![th[t].history] = RUnlocked(@, t)]
    /\ th' = [th EXCEPT ![t].pc = "peak_rlock",
                        ![t].avg = GetAverage(objs[th[t].history].History)]
    /\ UNCHANGED <<histories, objs, mu, maxSize, now, budget, calls, swept, recorded, log, admission>>

\* history.GetPeak: gh.mu.RLock()
Peak_RLock(t) ==
    /\ th[t].pc = "peak_rlock"
    /\ CanRLock(hmu[th[t].history])
    /\ hmu' = [hmu EXCEPT ![th[t].history] = RLocked(@, t)]
    /\ th' = [th EXCEPT ![t].pc = "peak_compute"]
    /\ UNCHANGED <<histories, objs, mu, maxSize, now, budget, calls, swept, recorded, log, admission>>

\* the peak over gh.History; deferred gh.mu.RUnlock(); then the weighted
\* estimate and the ResourceList, and EstimateResources returns it
Peak_Compute(t) ==
    /\ th[t].pc = "peak_compute"
    /\ hmu' = [hmu EXCEPT ![th[t].history] = RUnlocked(@, t)]
    /\ LET peak == GetPeak(objs[th[t].history].History)
       IN  th' = [th EXCEPT ![t].pc = "done", ![t].peak = peak,
                            ![t].resources = ResourceList(th[t].avg, peak),
                            ![t].err = FALSE]
    /\ UNCHANGED <<histories, objs, mu, maxSize, now, budget, calls, swept, recorded, log, admission>>

----------------------------------------------------------------------------
(* GetHistory *)

CallGetHistory(t, namespace, groupName) ==
    /\ CanCall(t)
    /\ th' = [th EXCEPT ![t] = [Idle EXCEPT !.op = "GetHistory", !.pc = "gh_rlock",
                                  !.namespace = namespace, !.groupName = groupName,
                                  !.key = Key(namespace, groupName)]]
    /\ Uses(namespace, groupName)
    /\ Called("GetHistory")
    /\ UNCHANGED <<histories, objs, hmu, mu, maxSize, now, budget, swept, recorded, log, admission>>

\* e.mu.RLock()
GH_RLock(t) ==
    /\ th[t].pc = "gh_rlock"
    /\ CanRLock(mu)
    /\ mu' = RLocked(mu, t)
    /\ th' = [th EXCEPT ![t].pc = "gh_lookup"]
    /\ UNCHANGED <<histories, objs, hmu, maxSize, now, budget, calls, swept, recorded, log, admission>>

\* GetHistory registering a History for a key it does not find
GH_Lookup_Creates(t) ==
    /\ th[t].pc = "gh_lookup"
    /\ mu' = RUnlocked(mu, t)
    /\ IF th[t].key \in DOMAIN histories
       THEN /\ th' = [th EXCEPT ![t].pc = "done", ![t].exists = TRUE,
                                ![t].history = histories[th[t].key]]
            /\ UNCHANGED <<histories, objs, hmu, log>>
       ELSE /\ objs' = Append(objs, NewGroupHistory(th[t].groupName, th[t].namespace, maxSize))
            /\ hmu' = Append(hmu, Unlocked)
            /\ log' = Append(log, <<>>)
            /\ histories' = [k \in DOMAIN histories \cup {th[t].key} |->
                                IF k = th[t].key THEN Len(objs) + 1 ELSE histories[k]]
            /\ th' = [th EXCEPT ![t].pc = "done", ![t].exists = FALSE, ![t].history = 0]
    /\ UNCHANGED <<maxSize, now, budget, calls, swept, recorded, admission>>

\* history, exists := e.histories[key]; return both; deferred e.mu.RUnlock()
GH_Lookup(t) ==
    /\ th[t].pc = "gh_lookup"
    /\ mu' = RUnlocked(mu, t)
    /\ IF th[t].key \in DOMAIN histories
       THEN th' = [th EXCEPT ![t].pc = "done", ![t].exists = TRUE,
                             ![t].history = histories[th[t].key]]
       ELSE th' = [th EXCEPT ![t].pc = "done", ![t].exists = FALSE, ![t].history = 0]
    /\ UNCHANGED <<histories, objs, hmu, maxSize, now, budget, calls, swept, recorded, log, admission>>

----------------------------------------------------------------------------
(* CleanOldHistory *)

CallCleanOldHistory(t, maxAge) ==
    /\ CanCall(t)
    /\ th' = [th EXCEPT ![t] = [Idle EXCEPT !.op = "CleanOldHistory", !.pc = "co_lock",
                                  !.maxAge = maxAge]]
    /\ Called("CleanOldHistory")
    /\ swept' = TRUE
    /\ UNCHANGED <<histories, objs, hmu, mu, maxSize, now, budget, recorded, log, admission>>

\* the sweep starting its range without taking the registry lock
CO_Lock_NoLock(t) ==
    /\ th[t].pc = "co_lock"
    /\ th' = [th EXCEPT ![t].pc = "co_range", ![t].removed = 0,
                        ![t].cutoff = now - th[t].maxAge,
                        ![t].todo = DOMAIN histories,
                        ![t].pre = [histories |-> histories, objs |-> objs,
                                    now |-> now]]
    /\ UNCHANGED <<histories, objs, hmu, mu, maxSize, now, budget, calls, swept, recorded, log, admission>>

\* e.mu.Lock(); removed := 0; cutoff := time.Now().Add(-maxAge); the range
\* over e.histories starts
CO_Lock(t) ==
    /\ th[t].pc = "co_lock"
    /\ IF CanLock(mu, t)
       THEN /\ mu' = Locked(t)
            /\ th' = [th EXCEPT ![t].pc = "co_range", ![t].removed = 0,
                                ![t].cutoff = now - th[t].maxAge,
                                ![t].todo = DOMAIN histories,
                                ![t].pre = [histories |-> histories, objs |-> objs,
                                            now |-> now]]
       ELSE /\ CanWait(mu, t)
            /\ mu' = Waiting(mu, t)
            /\ UNCHANGED th
    /\ UNCHANGED <<histories, objs, hmu, maxSize, now, budget, calls, swept, recorded, log, admission>>

\* the range yields the next entry, in any order
CO_Range(t) ==
    /\ th[t].pc = "co_range"
    /\ \E key \in th[t].todo :
        th' = [th EXCEPT ![t].pc = "co_history_lock", ![t].key = key,
                         ![t].history = histories[key],
                         ![t].todo = @ \ {key}]
    /\ UNCHANGED <<histories, objs, hmu, mu, maxSize, now, budget, calls, swept, recorded, log, admission>>

\* history.mu.Lock()
CO_HistoryLock(t) ==
    /\ th[t].pc = "co_history_lock"
    /\ IF CanLock(hmu[th[t].history], t)
       THEN /\ hmu' = [hmu EXCEPT ![th[t].history] = Locked(t)]
            /\ th' = [th EXCEPT ![t].pc = "co_check"]
       ELSE /\ CanWait(hmu[th[t].history], t)
            /\ hmu' = [hmu EXCEPT ![th[t].history] = Waiting(@, t)]
            /\ UNCHANGED th
    /\ UNCHANGED <<histories, objs, mu, maxSize, now, budget, calls, swept, recorded, log, admission>>

\* the sweep deleting an entry whose last sample is at the cutoff
CO_Check_NotStrict(t) ==
    /\ th[t].pc = "co_check"
    /\ LET h == objs[th[t].history].History
       IN  IF Len(h) > 0 /\ h[Len(h)].Timestamp <= th[t].cutoff
           THEN /\ histories' = [k \in DOMAIN histories \ {th[t].key} |-> histories[k]]
                /\ th' = [th EXCEPT ![t].pc = "co_range", ![t].removed = @ + 1]
           ELSE /\ th' = [th EXCEPT ![t].pc = "co_range"]
                /\ UNCHANGED histories
    /\ hmu' = [hmu EXCEPT ![th[t].history] = Unlocked]
    /\ UNCHANGED <<objs, mu, maxSize, now, budget, calls, swept, recorded, log, admission>>

\* the sweep deleting an entry that has no sample
CO_Check_RemovesEmpty(t) ==
    /\ th[t].pc = "co_check"
    /\ LET h == objs[th[t].history].History
       IN  IF Len(h) = 0 \/ h[Len(h)].Timestamp < th[t].cutoff
           THEN /\ histories' = [k \in DOMAIN histories \ {th[t].key} |-> histories[k]]
                /\ th' = [th EXCEPT ![t].pc = "co_range", ![t].removed = @ + 1]
           ELSE /\ th' = [th EXCEPT ![t].pc = "co_range"]
                /\ UNCHANGED histories
    /\ hmu' = [hmu EXCEPT ![th[t].history] = Unlocked]
    /\ UNCHANGED <<objs, mu, maxSize, now, budget, calls, swept, recorded, log, admission>>

\* delete the entry if its last sample is before the cutoff; history.mu.Unlock()
CO_Check(t) ==
    /\ th[t].pc = "co_check"
    /\ LET h == objs[th[t].history].History
       IN  IF Len(h) > 0 /\ h[Len(h)].Timestamp < th[t].cutoff
           THEN /\ histories' = [k \in DOMAIN histories \ {th[t].key} |-> histories[k]]
                /\ th' = [th EXCEPT ![t].pc = "co_range", ![t].removed = @ + 1]
           ELSE /\ th' = [th EXCEPT ![t].pc = "co_range"]
                /\ UNCHANGED histories
    /\ hmu' = [hmu EXCEPT ![th[t].history] = Unlocked]
    /\ UNCHANGED <<objs, mu, maxSize, now, budget, calls, swept, recorded, log, admission>>

\* the sweep returning without releasing the registry lock
CO_Unlock_KeepsLock(t) ==
    /\ th[t].pc = "co_range"
    /\ th[t].todo = {}
    /\ th' = [th EXCEPT ![t].pc = "done"]
    /\ UNCHANGED <<histories, objs, hmu, mu, maxSize, now, budget, calls, swept, recorded, log, admission>>

\* the range is over; return removed; deferred e.mu.Unlock()
CO_Unlock(t) ==
    /\ th[t].pc = "co_range"
    /\ th[t].todo = {}
    /\ mu' = Unlocked
    /\ th' = [th EXCEPT ![t].pc = "done"]
    /\ UNCHANGED <<histories, objs, hmu, maxSize, now, budget, calls, swept, recorded, log, admission>>

----------------------------------------------------------------------------
(* The callers: any thread, any call, any interleaving *)

\* a caller starts a call on thread t
Call(t) ==
    \/ \E p \in Pairs, u \in Usages : CallRecordUsage(t, p[1], p[2], u)
    \/ \E p \in Pairs : CallEstimateResources(t, p[1], p[2])
    \/ \E p \in Pairs : CallGetHistory(t, p[1], p[2])
    \/ \E a \in MaxAges : CallCleanOldHistory(t, a)

\* thread t runs the next step of its call
Run(t) ==
    \/ RU_Lock(t)
    \/ RU_GetOrCreate(t)
    \/ AU_Lock(t)
    \/ AU_Append(t)
    \/ ER_RLock(t)
    \/ ER_Lookup(t)
    \/ Avg_RLock(t)
    \/ Avg_Compute(t)
    \/ Peak_RLock(t)
    \/ Peak_Compute(t)
    \/ GH_RLock(t)
    \/ GH_Lookup(t)
    \/ CO_Lock(t)
    \/ CO_Range(t)
    \/ CO_HistoryLock(t)
    \/ CO_Check(t)
    \/ CO_Unlock(t)
    \/ Return(t)

Step(t) == Call(t) \/ Run(t)

Next == Tick \/ \E t \in Threads : Step(t)

Spec == Init /\ [][Next]_vars

(* One caller: the calls run one after the other, and the clock advances
   between them *)

TickBetween == (\A t \in Threads : th[t].pc = "idle") /\ Tick

NextSeq == TickBetween \/ Step(1)

\* the one caller looks up and estimates as often as it likes
InitSeq == InitWith(0..MaxSeqCap, MaxSeqCalls, {"EstimateResources", "GetHistory"})

SpecSeq == InitSeq /\ [][NextSeq]_vars

(* Concurrent callers under a fair scheduler: a goroutine that can take its
   next step eventually takes it. The calls of a run are finitely many, so a
   lock that is released stays free long enough for each waiting call *)

Fairness == \A t \in Threads : WF_vars(Run(t))

\* the capacity plays no part in the locking: one capacity is enough
InitFair == InitWith({FairCap}, MaxCalls, {})

SpecFair == InitFair /\ [][Next]_vars /\ Fairness

(* Concurrent callers that all work on one group, which makes one more call
   affordable *)

OneGroup == <<"a", "c">>

InitGroup == InitPlan({FairCap}, [calls |-> MaxGroupCalls, free |-> {}, pairs |-> {OneGroup}])

SpecGroup == InitGroup /\ [][Next]_vars

----------------------------------------------------------------------------
(* The admission webhook serving reviews: every request is answered from its
   object alone *)

\* the values a member of spec may have besides being absent
Numbers == { Num(n) : n \in -1..MaxMember }

\* the maps with key absent, or key with one of the values
Opt(key, values) == {Nil} \cup { key :> v : v \in values }

\* the spec maps of the objects sent for review
SpecDatas ==
    { a @@ b @@ c @@ d :
        a \in Opt("minMember", Numbers \cup {Text}),
        b \in Opt("maxMember", Numbers \cup {Text}),
        c \in Opt("scheduleTimeoutSeconds", {Num(0), Num(1)}),
        d \in Opt("priority", {Num(7)}) }

\* req.Object.Raw: bytes that are not JSON, null, an object without spec, an
\* object whose spec is not a map, and JobGroup objects
Raws ==
    { Malformed, Null, Obj("kind" :> Text), Obj(("kind" :> Text) @@ ("spec" :> Text)) }
    \cup { Obj(("kind" :> Text) @@ ("spec" :> Obj(s))) : s \in SpecDatas }

\* POST /validate
handleValidate(raw) ==
    /\ admission' = [handler |-> "validate", Raw |-> raw, Response |-> validateJobGroup(raw)]
    /\ UNCHANGED <<histories, objs, hmu, mu, maxSize, now, th, budget, calls, swept, recorded, log>>

\* POST /mutate
handleMutate(raw) ==
    /\ admission' = [handler |-> "mutate", Raw |-> raw, Response |-> mutateJobGroup(raw)]
    /\ UNCHANGED <<histories, objs, hmu, mu, maxSize, now, th, budget, calls, swept, recorded, log>>

NextWebhook ==
    \/ \E raw \in Raws : handleValidate(raw)
    \/ \E raw \in Raws : handleMutate(raw)

InitWebhook == InitWith({0}, 0, {})

SpecWebhook == InitWebhook /\ [][NextWebhook]_vars

----------------------------------------------------------------------------
(* Definitions the claims share *)

Min(a, b) == IF a < b THEN a ELSE b

\* the last k elements of s
LastN(s, k) == SubSeq(s, Len(s) - k + 1, Len(s))

\* thread t has its result of a call of op
Returned(t, op) == th[t].op = op /\ th[t].pc = "done"

\* thread t is in a call of RecordUsage and has its history reference
HasReference(t) == th[t].op = "RecordUsage" /\ th[t].pc \in {"au_lock", "au_append", "done"}

----------------------------------------------------------------------------
(* C1: after N appends, a History of capacity C holds exactly the last
   min(N, C) samples appended to it, in append order; its length never
   exceeds its capacity. *)
C1_LastSamplesKept ==
    \A i \in DOMAIN objs :
        /\ Len(objs[i].History) <= objs[i].maxSize
        /\ objs[i].History = LastN(log[i], Min(Len(log[i]), objs[i].maxSize))

\* a History of capacity 2 after three appends, the evicted first sample
\* having the largest cpu value
C1_Witness ==
    \E i \in DOMAIN objs :
        /\ objs[i].maxSize = 2
        /\ Len(log[i]) = 3
        /\ log[i][1].CPU > log[i][2].CPU
        /\ log[i][1].CPU > log[i][3].CPU

(* C2: as long as no sweep runs, concurrent RecordUsage calls create exactly
   one History per key, every caller holds the History registered under its
   key, and once the calls have returned each History has received as many
   samples as there were calls for its key and holds min(calls, capacity) of
   them. *)
C2_OneHistoryNoLostSample ==
    ~swept =>
        /\ Len(objs) = Cardinality(DOMAIN histories)
        /\ \A k1, k2 \in DOMAIN histories : histories[k1] = histories[k2] => k1 = k2
        /\ \A t \in Threads : HasReference(t) =>
               /\ th[t].key \in DOMAIN histories
               /\ th[t].history = histories[th[t].key]
        /\ (\A t \in Threads : th[t].op = "RecordUsage" => th[t].pc = "done") =>
               \A k \in DOMAIN recorded :
                   /\ k \in DOMAIN histories
                   /\ Len(log[histories[k]]) = recorded[k]
                   /\ Len(objs[histories[k]].History) = Min(recorded[k], maxSize)

\* two calls for the same unseen key in flight together: one created the
\* History, the other found it, neither has appended yet
C2_Witness ==
    \E t, u \in Threads :
        /\ t # u
        /\ th[t].pc = "au_lock" /\ th[u].pc = "au_lock"
        /\ th[t].key = th[u].key
        /\ ~th[t].exists /\ th[u].exists
        /\ log[th[t].history] = <<>>
        /\ ~swept

Fields == {"CPU", "Memory", "GPU"}

RECURSIVE TotalUpTo(_, _, _)
\* h[1][f] + ... + h[n][f]
TotalUpTo(h, f, n) == IF n = 0 THEN 0 ELSE TotalUpTo(h, f, n - 1) + h[n][f]

Total(h, f) == TotalUpTo(h, f, Len(h))

\* the largest value of field f in the non-empty h
MaxOf(h, f) == CHOOSE m \in {h[i][f] : i \in DOMAIN h} : \A i \in DOMAIN h : h[i][f] <= m

\* 0.7 * mean + 0.3 * max of field f over h, as numerator and denominator;
\* zero over no sample
EstimateNum(h, f) == IF h = <<>> THEN 0 ELSE 7 * Total(h, f) + 3 * MaxOf(h, f) * Len(h)
EstimateDen(h) == IF h = <<>> THEN 1 ELSE 10 * Len(h)

\* n/d rounded to the nearest integer, halves away from zero (d > 0)
RoundDiv(n, d) == IF n >= 0 THEN (2 * n + d) \div (2 * d) ELSE -((2 * (-n) + d) \div (2 * d))

\* the samples of the History thread t's call worked on
Current(t) == objs[th[t].history].History

\* thread t has the ResourceList of a successful EstimateResources
HasEstimate(t) == Returned(t, "EstimateResources") /\ ~th[t].err

\* the step is one of thread t inside a call of op (the step that starts the
\* call included)
StepOf(t, op) == th'[t] # th[t] /\ th'[t].op = op

(* C3: the cpu entry of a successful estimate is 1000 * (0.7 * average +
   0.3 * peak) over the current samples, rounded to the nearest integer. *)
C3_RoundedMilliCores ==
    \A t \in Threads : HasEstimate(t) =>
        th[t].resources["cpu"] =
            RoundDiv(1000 * EstimateNum(Current(t), "CPU"), EstimateDen(Current(t)))

(* C4: EstimateResources for a key RecordUsage was never called for returns
   the error and no ResourceList, and no step of EstimateResources changes
   the registry or a History. *)
C4_NotFoundNoEffect ==
    /\ [](\A t \in Threads :
            (Returned(t, "EstimateResources") /\ th[t].key \notin DOMAIN recorded) =>
                (th[t].err /\ th[t].resources = Nil))
    /\ [][\A t \in Threads : StepOf(t, "EstimateResources") =>
            (histories' = histories /\ objs' = objs)]_vars

\* the error returned for an unrecorded key while another key has a History
C4_Witness ==
    \E t \in Threads :
        /\ Returned(t, "EstimateResources")
        /\ th[t].key \notin DOMAIN recorded
        /\ th[t].err
        /\ histories # Nil

\* key k is stale in the registry the sweep found: its History has a last
\* sample, stamped before now - maxAge
Stale(pre, k, maxAge) ==
    LET h == pre.objs[pre.histories[k]].History
    IN  Len(h) > 0 /\ h[Len(h)].Timestamp < pre.now - maxAge

(* C5: with no concurrent operation, CleanOldHistory deletes exactly the stale
   keys, leaves the other entries and every History as they were, and returns
   the number deleted; GetHistory reports what the registry holds. *)
C5_SweepRemovesExactlyStale ==
    \A t \in Threads :
        /\ Returned(t, "CleanOldHistory") =>
            LET pre == th[t].pre
                stale == {k \in DOMAIN pre.histories : Stale(pre, k, th[t].maxAge)}
            IN  /\ DOMAIN histories = DOMAIN pre.histories \ stale
                /\ \A k \in DOMAIN histories : histories[k] = pre.histories[k]
                /\ objs = pre.objs
                /\ th[t].removed = Cardinality(stale)
        /\ Returned(t, "GetHistory") =>
            /\ th[t].exists = (th[t].key \in DOMAIN histories)
            /\ th[t].exists => th[t].history = histories[th[t].key]

\* a sweep that deleted one History and kept another, non-empty one
C5_Witness ==
    \E t \in Threads :
        /\ Returned(t, "CleanOldHistory")
        /\ th[t].removed = 1
        /\ \E k \in DOMAIN histories : objs[histories[k]].History # <<>>

(* C6: a History with no sample when the sweep examines it stays registered,
   whatever maxAge is, and is not counted as removed. *)
C6_EmptyHistorySurvives ==
    [][\A t \in Threads :
        (th[t].pc = "co_check" /\ th'[t] # th[t] /\ Current(t) = <<>>) =>
            (histories' = histories /\ th'[t].removed = th[t].removed)]_vars

\* a sweep with negative maxAge has finished while a RecordUsage that created
\* a History has not appended to it yet: the History is still registered
C6_Witness ==
    \E t, u \in Threads :
        /\ Returned(t, "CleanOldHistory")
        /\ th[t].maxAge < 0
        /\ th[u].pc = "au_lock" /\ ~th[u].exists
        /\ Current(u) = <<>>
        /\ th[u].key \in DOMAIN th[t].pre.histories
        /\ th[t].pre.histories[th[u].key] = th[u].history
        /\ th[u].key \in DOMAIN histories
        /\ histories[th[u].key] = th[u].history

(* C7: each field of GetPeak's result is the maximum of that field over the
   samples held; over no sample the result is all zero. *)
C7_PeakComponentWise ==
    \A t \in Threads : HasEstimate(t) =>
        IF Current(t) = <<>>
        THEN \A f \in Fields : th[t].peak[f] = 0
        ELSE \A f \in Fields : th[t].peak[f] = MaxOf(Current(t), f)

\* a peak whose cpu comes from the first sample and whose memory comes from
\* the second
C7_Witness ==
    \E t \in Threads :
        /\ HasEstimate(t)
        /\ Len(Current(t)) = 2
        /\ th[t].peak.CPU = Current(t)[1].CPU /\ th[t].peak.CPU > Current(t)[2].CPU
        /\ th[t].peak.Memory = Current(t)[2].Memory /\ th[t].peak.Memory > Current(t)[1].Memory

(* C8: each field of GetAverage's result is the arithmetic mean of that field
   over the samples held; over no sample the result is all zero. *)
C8_AverageIsMean ==
    \A t \in Threads : HasEstimate(t) =>
        \A f \in Fields :
            /\ th[t].avg[f][2] > 0
            /\ IF Current(t) = <<>>
               THEN th[t].avg[f][1] = 0
               ELSE th[t].avg[f][1] * Len(Current(t)) = th[t].avg[f][2] * Total(Current(t), f)

\* an average over a History that has evicted a sample, different from the
\* mean of everything appended
C8_Witness ==
    \E t \in Threads :
        /\ HasEstimate(t)
        /\ Current(t) # <<>>
        /\ Len(log[th[t].history]) > Len(Current(t))
        /\ Total(log[th[t].history], "CPU") * Len(Current(t))
               # Total(Current(t), "CPU") * Len(log[th[t].history])

(* C9: a successful estimate has the nvidia.com/gpu entry exactly when the
   gpu estimate is positive; a group whose samples all have gpu = 0 gets the
   cpu and memory entries only. *)
C9_GPUOnlyIfPositive ==
    \A t \in Threads : HasEstimate(t) =>
        /\ ("nvidia.com/gpu" \in DOMAIN th[t].resources) <=> (EstimateNum(Current(t), "GPU") > 0)
        /\ (\A i \in DOMAIN Current(t) : Current(t)[i].GPU = 0) =>
               DOMAIN th[t].resources = {"cpu", "memory"}

\* an estimate without the accelerator entry for a group with samples
C9_Witness ==
    \E t \in Threads :
        /\ HasEstimate(t)
        /\ Current(t) # <<>>
        /\ \A i \in DOMAIN Current(t) : Current(t)[i].GPU = 0
        /\ "nvidia.com/gpu" \notin DOMAIN th[t].resources

(* C10: no step of GetHistory changes the registry or a History, and it
   returns found = false for an absent key, and found = true with the
   registered History otherwise. *)
C10_GetHistoryReadOnly ==
    [][\A t \in Threads : StepOf(t, "GetHistory") =>
        /\ histories' = histories
        /\ objs' = objs
        /\ th'[t].pc = "done" =>
            /\ th'[t].exists = (th[t].key \in DOMAIN histories)
            /\ th'[t].history = IF th[t].key \in DOMAIN histories
                                THEN histories[th[t].key] ELSE 0]_vars

\* a lookup of an absent key in a registry that holds another key
C10_Witness ==
    \E t \in Threads :
        /\ Returned(t, "GetHistory")
        /\ ~th[t].exists
        /\ th[t].key \notin DOMAIN histories
        /\ histories # Nil

(* C11: what a caller observes through the value GetHistory returned are the
   samples held at the lookup: while the caller has the value, no step of
   another call changes the samples it reaches through it. *)
C11_GetHistorySnapshot ==
    [][\A t \in Threads :
        (Returned(t, "GetHistory") /\ th[t].exists /\ th'[t] = th[t]) =>
            objs'[th[t].history].History = objs[th[t].history].History]_vars

\* what a caller observes for the pair p: the History object registered for
\* it (0: none) and its samples, from which average, peak and estimate derive
Observed(p) ==
    LET key == Key(p[1], p[2])
    IN  IF key \in DOMAIN histories
        THEN [object |-> histories[key], History |-> objs[histories[key]].History]
        ELSE [object |-> 0, History |-> <<>>]

(* C12: groups are independent: distinct (namespace, groupName) pairs never
   share a History object, and no step of a RecordUsage call for one pair
   changes what is observed for another pair. *)
C12_GroupsIndependent ==
    /\ [](\A p, q \in Pairs : (p # q /\ Observed(p).object # 0) =>
            Observed(p).object # Observed(q).object)
    /\ [][\A t \in Threads : StepOf(t, "RecordUsage") =>
            \A q \in Pairs : q # <<th'[t].namespace, th'[t].groupName>> =>
                Observed(q)' = Observed(q)]_vars

\* the samples the History objs[i] should hold after everything appended to
\* it: the last min(appended, capacity)
Retained(i) == LastN(log[i], Min(Len(log[i]), objs[i].maxSize))

(* C13 as stated: with no concurrent call, the peak is in each field the
   maximum of that field over every sample ever appended to the History. *)
C13_PeakOverAllAppended ==
    \A t \in Threads : (HasEstimate(t) /\ log[th[t].history] # <<>>) =>
        \A f \in Fields : th[t].peak[f] = MaxOf(log[th[t].history], f)

(* C13 amended: with no concurrent call, the peak is in each field the
   maximum of that field over the samples the History retains, the last
   min(appended, capacity) of those appended; all zero when it retains none. *)
C13_PeakOverRetained ==
    \A t \in Threads : HasEstimate(t) =>
        \A f \in Fields :
            th[t].peak[f] = IF Retained(th[t].history) = <<>>
                            THEN 0
                            ELSE MaxOf(Retained(th[t].history), f)

\* a peak after the sample with the largest cpu value was evicted from a
\* History of capacity 2: the peak is below the largest value ever appended
C13_Witness ==
    \E t \in Threads :
        /\ HasEstimate(t)
        /\ objs[th[t].history].maxSize = 2
        /\ Len(log[th[t].history]) = 3
        /\ th[t].peak.CPU < MaxOf(log[th[t].history], "CPU")

(* C14: every successful estimate is computed from at least one recorded
   sample: EstimateResources returns a ResourceList only for a History that
   has received a sample, and the error otherwise. *)
C14_EstimateNeedsSample ==
    \A t \in Threads : HasEstimate(t) => log[th[t].history] # <<>>

(* C15: the nvidia.com/gpu entry of a successful estimate is the gpu estimate
   0.7 * average + 0.3 * peak over the current samples, rounded to the
   nearest whole number. *)
C15_RoundedGPU ==
    \A t \in Threads :
        (HasEstimate(t) /\ "nvidia.com/gpu" \in DOMAIN th[t].resources) =>
            th[t].resources["nvidia.com/gpu"] =
                RoundDiv(EstimateNum(Current(t), "GPU"), EstimateDen(Current(t)))

\* the object sent for review has a spec map
HasSpec(raw) == raw.t = "object" /\ "spec" \in DOMAIN raw.o /\ raw.o["spec"].t = "object"

\* the member key of the spec map s is given, as a number
Specified(s, key) == key \in DOMAIN s /\ s[key].t = "number"

\* the member key of the spec map s is a positive number
Positive(s, key) == Specified(s, key) /\ s[key].n > 0

(* C16: validateJobGroup allows an object exactly when it has a spec whose
   minMember is positive, whose scheduleTimeoutSeconds is positive and whose
   maxMember, when specified, is at least minMember; an object with positive
   minMember and a specified maxMember below it (zero and negative included)
   is rejected with the message "maxMember must be >= minMember". *)
C16_ValidateIff ==
    admission.handler = "validate" =>
        LET raw == admission.Raw
            s == raw.o["spec"].o
        IN  /\ admission.Response.Allowed <=>
                  /\ HasSpec(raw)
                  /\ Positive(s, "minMember")
                  /\ Positive(s, "scheduleTimeoutSeconds")
                  /\ Specified(s, "maxMember") => s["maxMember"].n >= s["minMember"].n
            /\ ( /\ HasSpec(raw)
                 /\ Positive(s, "minMember")
                 /\ Specified(s, "maxMember")
                 /\ s["maxMember"].n < s["minMember"].n )
               => ( /\ ~admission.Response.Allowed
                    /\ admission.Response.Message = "maxMember must be >= minMember" )

\* the object after the operations of a JSON patch (RFC 6902) are applied;
\* the webhook emits only `replace` of the member /spec
ApplyPatch(raw, patch) ==
    IF patch = <<>> THEN raw
    ELSE Obj([raw.o EXCEPT !["spec"] = patch[1].value])

\* the member key of s is the number n
IsNumber(s, key, n) == key \in DOMAIN s /\ s[key] = Num(n)

(* C17: for an object with a spec, the response of mutateJobGroup is Allowed,
   carries no patch when maxMember, priority and scheduleTimeoutSeconds are
   all given, and its patch applied to the object gives an object whose spec
   has maxMember = 2 * minMember, priority = 50 and scheduleTimeoutSeconds =
   600 where they were not given, every given member of spec and every member
   outside spec being as before. *)
C17_PatchAppliesDefaults ==
    (admission.handler = "mutate" /\ HasSpec(admission.Raw)) =>
        LET raw == admission.Raw
            s == raw.o["spec"].o
            patched == ApplyPatch(raw, admission.Response.Patch)
            defaulted == {"maxMember", "priority", "scheduleTimeoutSeconds"}
        IN  /\ admission.Response.Allowed
            /\ defaulted \subseteq DOMAIN s => admission.Response.Patch = <<>>
            /\ DOMAIN patched.o = DOMAIN raw.o
            /\ \A k \in DOMAIN raw.o \ {"spec"} : patched.o[k] = raw.o[k]
            /\ patched.o["spec"].t = "object"
            /\ LET p == patched.o["spec"].o
               IN  /\ DOMAIN p = DOMAIN s \cup defaulted
                   /\ \A k \in DOMAIN s : p[k] = s[k]
                   /\ ("maxMember" \notin DOMAIN s /\ Specified(s, "minMember")) =>
                          IsNumber(p, "maxMember", 2 * s["minMember"].n)
                   /\ "priority" \notin DOMAIN s => IsNumber(p, "priority", 50)
                   /\ "scheduleTimeoutSeconds" \notin DOMAIN s =>
                          IsNumber(p, "scheduleTimeoutSeconds", 600)

\* thread t is inside a call that has not returned yet
InCall(t) == th[t].pc \notin {"idle", "done"}

(* C18: no deadlock: in every reachable state with a call in progress some
   call can take a step, and under fair scheduling every call that was
   started returns. *)
C18_NoDeadlock ==
    /\ []((\E t \in Threads : InCall(t)) => (\E t \in Threads : InCall(t) /\ ENABLED Run(t)))
    /\ \A t \in Threads : InCall(t) ~> (th[t].pc = "done")

\* the sweep holds the registry lock and waits for the lock of a History
\* that a RecordUsage call holds for its append
C18_Witness ==
    \E t, u \in Threads :
        /\ th[t].pc = "co_history_lock"
        /\ mu.w = t
        /\ th[u].pc = "au_append"
        /\ th[u].history = th[t].history
        /\ hmu[th[u].history].w = u

(* C19: whenever a RecordUsage call is about to append its sample, holding
   the History's lock, that History is the one registered under the call's
   key: no sample goes to a History the sweep has removed. *)
C19_AppendsToRegistered ==
    \A t \in Threads : th[t].pc = "au_append" =>
        /\ th[t].key \in DOMAIN histories
        /\ histories[th[t].key] = th[t].history

\* thread t holds the mutex m for writing
Holds(m, t) == m.w = t

(* C20: a RecordUsage call never holds the registry lock and a History's lock
   together: while it holds the registry lock it holds no History lock and
   has not reached AddUsage, and from the moment it asks for the History's
   lock it no longer holds the registry lock. *)
C20_LocksNeverNested ==
    \A t \in Threads : th[t].op = "RecordUsage" =>
        /\ ~(Holds(mu, t) /\ \E i \in DOMAIN hmu : Holds(hmu[i], t))
        /\ Holds(mu, t) <=> th[t].pc = "ru_getOrCreate"
        /\ (\E i \in DOMAIN hmu : Holds(hmu[i], t)) <=> th[t].pc = "au_append"

\* a RecordUsage call holds its History's lock for the append while the
\* sweep holds the registry lock
C20_Witness ==
    \E t, u \in Threads :
        /\ th[t].op = "RecordUsage" /\ th[t].pc = "au_append"
        /\ Holds(hmu[th[t].history], t)
        /\ th[u].op = "CleanOldHistory" /\ Holds(mu, u)

\* the calls inside a writing section of the History objs[i]: the append and
\* eviction of AddUsage, or the timestamp check of the sweep
Writers(i) ==
    {t \in Threads : th[t].pc \in {"au_append", "co_check"} /\ th[t].history = i}

\* the calls inside the reading section of GetAverage or GetPeak on objs[i]
Readers(i) ==
    {t \in Threads : th[t].pc \in {"avg_compute", "peak_compute"} /\ th[t].history = i}

(* C21: for each History at most one call is inside a writing section, and
   while one is, no GetAverage or GetPeak is inside its reading section on
   that History. *)
C21_WriterExcludes ==
    \A i \in DOMAIN objs :
        /\ Cardinality(Writers(i)) <= 1
        /\ Writers(i) # {} => Readers(i) = {}

\* two calls inside reading sections of the same History together, one in
\* GetAverage and one in GetPeak, the History holding a sample
C21_Witness ==
    \E t, u \in Threads :
        /\ th[t].pc = "avg_compute" /\ th[u].pc = "peak_compute"
        /\ th[t].history = th[u].history
        /\ objs[th[t].history].History # <<>>

\* thread u is inside the sweep, between e.mu.Lock() and the deferred Unlock
InSweep(u) == th[u].pc \in {"co_range", "co_history_lock", "co_check"}

(* C22: a sweep is atomic for the registry: while it runs, no step of another
   call changes the registry and no RecordUsage is inside get-or-create; the
   registry is what the sweep found at its start less the entries it has
   deleted itself, and the entries it has not examined yet are still
   registered. *)
C22_SweepAtomic ==
    /\ [](\A u \in Threads : InSweep(u) =>
            /\ \A t \in Threads : th[t].pc # "ru_getOrCreate"
            /\ DOMAIN histories \subseteq DOMAIN th[u].pre.histories
            /\ \A k \in DOMAIN histories : histories[k] = th[u].pre.histories[k]
            /\ Cardinality(DOMAIN th[u].pre.histories) - Cardinality(DOMAIN histories)
                   = th[u].removed
            /\ th[u].todo \subseteq DOMAIN histories)
    /\ [][\A u \in Threads : (InSweep(u) /\ th'[u] = th[u]) => histories' = histories]_vars

\* the sweep has deleted a History and still runs, while a RecordUsage for
\* the deleted key waits for the registry lock
C22_Witness ==
    \E t, u \in Threads :
        /\ InSweep(u) /\ th[u].removed = 1
        /\ th[t].pc = "ru_lock"
        /\ th[t].key \in DOMAIN th[u].pre.histories
        /\ th[t].key \notin DOMAIN histories

\* nobody holds the mutex m and no other Lock call is ahead of thread t's
Free(m, t) == m.w = 0 /\ m.r = {} /\ m.p \in {0, t}

(* C23: a RecordUsage call that has its History reference can take the
   History's lock whenever that lock is free, whoever holds the registry
   lock or another History's lock; and two appends for the same group are
   never inside their critical sections together. *)
C23_AppendsSerializedPerGroup ==
    /\ \A t \in Threads :
           (th[t].pc = "au_lock" /\ Free(hmu[th[t].history], t)) => ENABLED AU_Lock(t)
    /\ \A t, u \in Threads :
           (t # u /\ th[t].pc = "au_append" /\ th[u].pc = "au_append") =>
               <<th[t].namespace, th[t].groupName>> # <<th[u].namespace, th[u].groupName>>

\* the History objects the registry leads to
Registered(h) == {h[k] : k \in DOMAIN h}

(* C24: a History is created only by a RecordUsage call that finds no entry
   for its key, empty, with the Estimator's capacity, and registered under
   that key; an entry leaves the registry only by the sweep's deletion of
   the key it examines, and is never replaced; a History that has left the
   registry never returns to it; and the samples a History holds are
   samples that were appended to that very History. *)
C24_RemovedNeverResurrected ==
    /\ [](\A i \in DOMAIN objs : \A n \in DOMAIN objs[i].History :
            \E m \in DOMAIN log[i] : log[i][m] = objs[i].History[n])
    /\ [][/\ Len(objs') # Len(objs) =>
                \E t \in Threads :
                    /\ th[t].op = "RecordUsage" /\ th[t].pc = "ru_getOrCreate"
                    /\ th[t].key \notin DOMAIN histories
                    /\ Len(objs') = Len(objs) + 1
                    /\ objs'[Len(objs')] =
                           NewGroupHistory(th[t].groupName, th[t].namespace, maxSize)
                    /\ objs'[Len(objs')].History = <<>>
                    /\ histories' = (th[t].key :> Len(objs')) @@ histories
                    /\ th'[t].history = Len(objs')
          /\ \A k \in DOMAIN histories :
                (k \notin DOMAIN histories' \/ histories'[k] # histories[k]) =>
                    \E t \in Threads :
                        /\ th[t].op = "CleanOldHistory" /\ th[t].pc = "co_check"
                        /\ th[t].key = k /\ th'[t] # th[t]
                        /\ k \notin DOMAIN histories'
          /\ \A i \in DOMAIN objs :
                i \notin Registered(histories) => i \notin Registered(histories')
       ]_vars

\* an estimate from the second History of a group, created after the sweep
\* removed the first with its sample; the second holds one sample
C24_Witness ==
    \E t \in Threads :
        /\ HasEstimate(t)
        /\ th[t].history = 2
        /\ histories = (th[t].key :> 2)
        /\ objs[1].History # <<>>
        /\ <<objs[1].Namespace, objs[1].GroupName>> = <<objs[2].Namespace, objs[2].GroupName>>
        /\ Len(log[2]) = 1
        /\ th[t].avg.CPU = <<log[2][1].CPU, 1>>
        /\ log[1][1].CPU # log[2][1].CPU

(* C25: the clock never going backwards, the timestamps of each History's
   samples are non-decreasing in index order and none is later than the
   clock, so the last sample carries the newest timestamp of the History. *)
C25_TimestampsOrdered ==
    \A i \in DOMAIN objs :
        LET h == objs[i].History
        IN  /\ \A n, m \in DOMAIN h : n <= m => h[n].Timestamp <= h[m].Timestamp
            /\ \A n \in DOMAIN h : h[n].Timestamp <= h[Len(h)].Timestamp
            /\ \A n \in DOMAIN h : h[n].Timestamp <= now

\* a History with samples of two instants, written by two calls that ran
\* together: the second was already in RecordUsage when the first appended
C25_Witness ==
    \E i \in DOMAIN objs : \E t \in Threads :
        /\ Len(objs[i].History) = 2
        /\ objs[i].History[1].Timestamp < objs[i].History[2].Timestamp
        /\ th[t].pc = "au_lock" /\ th[t].history = i

\* the fractions a and b (numerator, positive denominator) compared
Leq(a, b) == a[1] * b[2] <= b[1] * a[2]

\* the samples of h all have the same value in field f
Agree(h, f) == \A n, m \in DOMAIN h : h[n][f] = h[m][f]

(* C26: for a non-empty History and every field, the estimate of a
   successful EstimateResources lies between the average and the peak it
   was computed from, average <= estimate <= peak, negative values included,
   and it equals both exactly when all current samples agree in the field. *)
C26_EstimateBetween ==
    \A t \in Threads : (HasEstimate(t) /\ Current(t) # <<>>) =>
        \A f \in Fields :
            LET average == th[t].avg[f]
                estimate == Estimated(th[t].avg, th[t].peak, f)
                peak == <<th[t].peak[f], 1>>
            IN  /\ Leq(average, estimate)
                /\ Leq(estimate, peak)
                /\ (Leq(estimate, average) /\ Leq(peak, estimate)) <=> Agree(Current(t), f)

(* C27: whenever the ResourceList of a successful EstimateResources has
   the nvidia.com/gpu entry, the quantity of the entry is at least 1; an
   entry with quantity 0 is never returned. *)
C27_GPUEntryAtLeastOne ==
    \A t \in Threads :
        (HasEstimate(t) /\ "nvidia.com/gpu" \in DOMAIN th[t].resources) =>
            th[t].resources["nvidia.com/gpu"] >= 1

====
